---- MODULE Spec2Model ----
(***************************************************************************)
(* Model of otimizador_programacaoSL.py: descriptor parsing, setup and     *)
(* urgency classification, lot aggregation, sequencing and batching, the   *)
(* detail report, the metrics and the run handler that chains them.        *)
(*                                                                         *)
(* Representation of the Python values:                                    *)
(*   text        a sequence of one-character strings                       *)
(*   a value that is not text (None, NaN)   the one-element text NaoTexto  *)
(*   timestamps  naturals counting fractions of a day (PartesDoDia per     *)
(*               day); NaT is -1                                           *)
(*   float thickness   a natural number of thousandths; None is -1         *)
(*   QTDE cells  a natural (a number, or text that reads as one), NaN, or  *)
(*               TEXTO_NAO_NUMERICO (text pd.to_numeric cannot convert)    *)
(*   lot ids     text made of digits (the handler casts LOTE to str)       *)
(*   setup keys  [plaina, balancim], standing for "<plaina>_<balancim>mm"  *)
(***************************************************************************)
EXTENDS Integers, Sequences, FiniteSets, TLC

VARIABLES
  clock,        \* the wall clock datetime.now() reads
  DATA_ATUAL,   \* module global set at line 10
  planilha,     \* rows of the uploaded sheet, as read by pd.read_excel
  priorities,   \* [p1, p2, p3] chosen in the three select boxes
  df,           \* the handler's data frame after cleaning (lines 220-236)
  pendentes,    \* groups of df.groupby('LOTE') not yet iterated
  lotes,        \* the list processar_dados_lote appends to
  sequencia,    \* first result of otimizar_sequencia
  batches,      \* second result of otimizar_sequencia
  relatorio,    \* result of gerar_relatorio_final
  metricas,     \* result of calcular_metricas (the counters of the table)
  data_entrega, \* argument of a direct call of calcular_urgencia
  urgencia,     \* its result
  msg,          \* what the handler shows: "", "sucesso", "nenhum_lote", "erro"
  pc            \* position in the script

vars == <<clock, DATA_ATUAL, planilha, priorities, df, pendentes, lotes,
          sequencia, batches, relatorio, metricas, data_entrega, urgencia,
          msg, pc>>

None == -1
NaT == -1
NaN == -1
TEXTO_NAO_NUMERICO == -2
NaoTexto == <<"NaN">>
SemCasamento == <<>>

\* ---------------------------------------------------------------- bounds
MaxLinhas == 3
MaxLotes == 3
MaxTicks == 1

\* ------------------------------------------------------------- constants
PESO_META_BATCH == 120
LIMITE_PLAINA_FINA == 4750
ESPESSURA_AUSENTE == 999000
PartesDoDia == 2

\* ------------------------------------------------------------------ text
Digitos == {"0", "1", "2", "3", "4", "5", "6", "7", "8", "9"}
Separadores == {".", ","}
Brancos == {" "}

DigitoVal(c) ==
  CASE c = "0" -> 0 [] c = "1" -> 1 [] c = "2" -> 2 [] c = "3" -> 3
    [] c = "4" -> 4 [] c = "5" -> 5 [] c = "6" -> 6 [] c = "7" -> 7
    [] c = "8" -> 8 [] c = "9" -> 9

\* str.upper() on the letters the descriptors use; other characters are kept
UpperChar(c) ==
  CASE c = "r" -> "R" [] c = "e" -> "E" [] c = "b" -> "B" [] c = "a" -> "A"
    [] c = "i" -> "I" [] c = "x" -> "X" [] c = "d" -> "D" [] c = "o" -> "O"
    [] OTHER -> c

upper(s) == [i \in 1..Len(s) |-> UpperChar(s[i])]

\* t in s, for two texts
Contem(s, t) ==
  \E i \in 1..(Len(s) - Len(t) + 1) : \A k \in 1..Len(t) : s[i + k - 1] = t[k]

MARCA_REBAIXADO == <<"R", "E", "B", "A", "I", "X", "A", "D">>

\* index of the last character of the maximal run of characters of set cs
\* that starts at i (i - 1 when s[i] is not in cs)
RECURSIVE FimDaSerie(_, _, _)
FimDaSerie(s, i, cs) ==
  IF i <= Len(s) /\ s[i] \in cs THEN FimDaSerie(s, i + 1, cs) ELSE i - 1

\* int() of a text of digits
RECURSIVE IntDe(_)
IntDe(ds) ==
  IF ds = <<>> THEN 0
  ELSE 10 * IntDe(SubSeq(ds, 1, Len(ds) - 1)) + DigitoVal(ds[Len(ds)])

RECURSIVE Pot10(_)
Pot10(n) == IF n <= 0 THEN 1 ELSE 10 * Pot10(n - 1)

\* float() of "<digits>" or "<digits>[.,]<digits>", in thousandths
FloatDe(g) ==
  LET e == FimDaSerie(g, 1, Digitos)
      int == IntDe(SubSeq(g, 1, e))
      frac == SubSeq(g, e + 2, Len(g))
  IN  IF e = Len(g) THEN 1000 * int
      ELSE IF Len(frac) <= 3
           THEN 1000 * int + IntDe(frac) * Pot10(3 - Len(frac))
           ELSE 1000 * int + (IntDe(frac) \div Pot10(Len(frac) - 3))

\* the rest of the pattern after group 1: \s*X\s*(\d+), from index j;
\* the text of group 2, or SemCasamento
CaudaDoPadrao(s, j) ==
  LET x == FimDaSerie(s, j, Brancos) + 1
      d == FimDaSerie(s, x + 1, Brancos) + 1
      f == FimDaSerie(s, d, Digitos)
  IN  IF x <= Len(s) /\ s[x] = "X" /\ f >= d THEN SubSeq(s, d, f)
      ELSE SemCasamento

\* the match of (\d+[\.,]\d+|\d+)\s*X\s*(\d+) that starts at index i:
\* <<group 1, group 2>>, or SemCasamento
CasaEm(s, i) ==
  LET e1 == FimDaSerie(s, i, Digitos)
      e2 == FimDaSerie(s, e1 + 2, Digitos)
      decimal == /\ e1 + 1 <= Len(s)
                 /\ s[e1 + 1] \in Separadores
                 /\ e2 >= e1 + 2
      c1 == IF decimal THEN CaudaDoPadrao(s, e2 + 1) ELSE SemCasamento
      c2 == CaudaDoPadrao(s, e1 + 1)
  IN  IF e1 < i THEN SemCasamento
      ELSE IF c1 # SemCasamento THEN <<SubSeq(s, i, e2), c1>>
      ELSE IF c2 # SemCasamento THEN <<SubSeq(s, i, e1), c2>>
      ELSE SemCasamento

\* re.search: the match at the leftmost index that has one
re_search(s) ==
  LET onde == {i \in 1..Len(s) : CasaEm(s, i) # SemCasamento}
  IN  IF onde = {} THEN SemCasamento
      ELSE CasaEm(s, CHOOSE i \in onde : \A k \in onde : i <= k)

\* the same function with the marker test dropped
parse_dimensoes_sem_marca(descricao_produto) ==
  IF descricao_produto = NaoTexto THEN <<None, None>>
  ELSE LET match == re_search(descricao_produto)
       IN  IF match # SemCasamento
           THEN <<FloatDe(match[1]), IntDe(match[2])>>
           ELSE <<None, None>>

parse_dimensoes(descricao_produto) ==
  IF descricao_produto = NaoTexto
     \/ Contem(upper(descricao_produto), MARCA_REBAIXADO)
  THEN <<None, None>>
  ELSE LET match == re_search(descricao_produto)
       IN  IF match # SemCasamento
           THEN <<FloatDe(match[1]), IntDe(match[2])>>
           ELSE <<None, None>>

\* ----------------------------------------------------------------- setup
SETUP_INDEFINIDO == [plaina |-> "SETUP_INDEFINIDO", balancim |-> 0]

determinar_setup(espessura, largura) ==
  IF espessura = None \/ largura = None THEN SETUP_INDEFINIDO
  ELSE [plaina |-> IF espessura <= LIMITE_PLAINA_FINA THEN "PLAINA_FINA"
                   ELSE "PLAINA_GROSSA",
        balancim |-> largura]

\* -------------------------------------------------------------- urgency
\* timedelta.days: whole days, rounded down
Dias(delta) == delta \div PartesDoDia

COM_FOLGA_SEM_DATA == "5 - COM FOLGA (SEM DATA)"
\* "1 - URGENTÍSSIMO" in the source; the accent is left out here
URGENTISSIMO == "1 - URGENTISSIMO"
URGENTE == "2 - URGENTE"
ATRASADO == "3 - ATRASADO"
NO_TEMPO == "4 - NO TEMPO"
COM_FOLGA == "5 - COM FOLGA"

\* the tier-1 test written with >= instead of >
calcular_urgencia_limite(data, data_atual) ==
  IF data = NaT THEN <<5, COM_FOLGA_SEM_DATA>>
  ELSE LET dias_atraso == Dias(data_atual - data)
       IN  IF dias_atraso >= 10 THEN <<1, URGENTISSIMO>>
           ELSE IF 5 <= dias_atraso /\ dias_atraso <= 10 THEN <<2, URGENTE>>
           ELSE IF 0 <= dias_atraso /\ dias_atraso <= 4 THEN <<3, ATRASADO>>
           ELSE IF -10 <= dias_atraso /\ dias_atraso < 0 THEN <<4, NO_TEMPO>>
           ELSE <<5, COM_FOLGA>>

calcular_urgencia(data, data_atual) ==
  IF data = NaT THEN <<5, COM_FOLGA_SEM_DATA>>
  ELSE LET dias_atraso == Dias(data_atual - data)
       IN  IF dias_atraso > 10 THEN <<1, URGENTISSIMO>>
           ELSE IF 5 <= dias_atraso /\ dias_atraso <= 10 THEN <<2, URGENTE>>
           ELSE IF 0 <= dias_atraso /\ dias_atraso <= 4 THEN <<3, ATRASADO>>
           ELSE IF -10 <= dias_atraso /\ dias_atraso < 0 THEN <<4, NO_TEMPO>>
           ELSE <<5, COM_FOLGA>>

\* ---------------------------------------------------------- text order
\* the order of the characters that occur in lot ids and setup keys
Ord(c) == IF c \in Digitos THEN DigitoVal(c) ELSE 10

\* a < b for two str values: Python compares them character by character
RECURSIVE TextoMenor(_, _)
TextoMenor(a, b) ==
  IF b = <<>> THEN FALSE
  ELSE IF a = <<>> THEN TRUE
  ELSE IF a[1] # b[1] THEN Ord(a[1]) < Ord(b[1])
  ELSE TextoMenor(Tail(a), Tail(b))

\* str() of a natural
RECURSIVE Str(_)
Str(n) ==
  LET d == CHOOSE c \in Digitos : DigitoVal(c) = n % 10
  IN  IF n < 10 THEN <<d>> ELSE Append(Str(n \div 10), d)

PlainaOrd(p) ==
  CASE p = "PLAINA_FINA" -> 1 [] p = "PLAINA_GROSSA" -> 2
    [] p = "SETUP_INDEFINIDO" -> 3

\* a < b for two setup keys, as the strings f"{plaina}_{largura}mm"
SetupMenor(a, b) ==
  IF a.plaina # b.plaina THEN PlainaOrd(a.plaina) < PlainaOrd(b.plaina)
  ELSE TextoMenor(Str(a.balancim) \o <<"m", "m">>,
                  Str(b.balancim) \o <<"m", "m">>)

\* --------------------------------------------------------- lot aggregator
\* pd.to_numeric(x, errors='coerce') of one cell
to_numeric(q) == IF q = TEXTO_NAO_NUMERICO \/ q = NaN THEN NaN ELSE q

fillna0(q) == IF q = NaN THEN 0 ELSE q

RECURSIVE Soma(_)
Soma(xs) == IF xs = <<>> THEN 0 ELSE Head(xs) + Soma(Tail(xs))

SelectRows(d, lote_id) == SelectSeq(d, LAMBDA r : r.LOTE = lote_id)

\* Series.min() of a date column: NaT is skipped, NaT when nothing is left
MinData(ds) ==
  LET reais == {ds[i] : i \in 1..Len(ds)} \ {NaT}
  IN  IF reais = {} THEN NaT ELSE CHOOSE m \in reais : \A x \in reais : m <= x

\* lines 50-55: the dimensions of the first product of the group that parses
RECURSIVE PrimeiraDimensao(_)
PrimeiraDimensao(produtos) ==
  IF produtos = <<>> THEN <<None, None>>
  ELSE LET dim == parse_dimensoes(Head(produtos))
       IN  IF dim[1] # None THEN dim ELSE PrimeiraDimensao(Tail(produtos))

\* the keys of df.groupby('LOTE'), which sorts them
RECURSIVE OrdenarTextos(_)
OrdenarTextos(S) ==
  IF S = {} THEN <<>>
  ELSE LET m == CHOOSE x \in S : \A y \in S : ~TextoMenor(y, x)
       IN  <<m>> \o OrdenarTextos(S \ {m})

\* the group keys in the order the rows first show them
RECURSIVE OrdemDeChegada(_, _)
OrdemDeChegada(d, vistos) ==
  IF d = <<>> THEN <<>>
  ELSE IF Head(d).LOTE \in vistos THEN OrdemDeChegada(Tail(d), vistos)
  ELSE <<Head(d).LOTE>> \o OrdemDeChegada(Tail(d), vistos \cup {Head(d).LOTE})

ChavesPorChegada(d) == OrdemDeChegada(d, {})

\* groupby with sort=False
groupby_LOTE_sem_ordenar(d) == ChavesPorChegada(d)

groupby_LOTE(d) == OrdenarTextos({d[i].LOTE : i \in 1..Len(d)})

Coluna(d, c) == [i \in 1..Len(d) |-> d[i][c]]

\* the weight of the last row instead of the sum
sum_ultima_linha(qtde_numerica) == qtde_numerica[Len(qtde_numerica)]

\* Series.sum()
sum(qtde_numerica) == Soma(qtde_numerica)

\* lines 46-62: the record of one group, classified against data_atual
LoteDoGrupo(lote_id, grupo, data_atual) ==
  LET qtde_numerica == [i \in 1..Len(grupo) |-> fillna0(to_numeric(grupo[i].QTDE))]
      peso_total_lote == sum(qtde_numerica)
      data_entrega_lote == MinData(Coluna(grupo, "DATA"))
      dim == PrimeiraDimensao(Coluna(grupo, "PRODUTO"))
      urg == calcular_urgencia(data_entrega_lote, data_atual)
  IN  [LOTE |-> lote_id,
       PESO_TOTAL |-> peso_total_lote,
       DATA_ENTREGA |-> data_entrega_lote,
       SETUP |-> determinar_setup(dim[1], dim[2]),
       URGENCIA_NIVEL |-> urg[1],
       URGENCIA_NOME |-> urg[2],
       ESPESSURA |-> IF dim[1] # None THEN dim[1] ELSE ESPESSURA_AUSENTE]

\* -------------------------------------------------------------- sequencer
\* -1, 0, 1 as lot a sorts before, with, after lot b on one column;
\* a null date sorts last (na_position='last')
Compara(a, b, col) ==
  CASE col = "SETUP" ->
         IF a.SETUP = b.SETUP THEN 0
         ELSE IF SetupMenor(a.SETUP, b.SETUP) THEN -1 ELSE 1
    [] col = "DATA_ENTREGA" ->
         IF a.DATA_ENTREGA = b.DATA_ENTREGA THEN 0
         ELSE IF a.DATA_ENTREGA = NaT THEN 1
         ELSE IF b.DATA_ENTREGA = NaT THEN -1
         ELSE IF a.DATA_ENTREGA < b.DATA_ENTREGA THEN -1 ELSE 1
    [] OTHER ->
         IF a[col] = b[col] THEN 0 ELSE IF a[col] < b[col] THEN -1 ELSE 1

RECURSIVE ComparaPor(_, _, _)
ComparaPor(a, b, by) ==
  IF by = <<>> THEN 0
  ELSE LET c == Compara(a, b, Head(by))
       IN  IF c # 0 THEN c ELSE ComparaPor(a, b, Tail(by))

\* x placed in the sorted list after every element that does not sort after it
RECURSIVE Inserir(_, _, _)
Inserir(x, ordenada, by) ==
  IF ordenada = <<>> THEN <<x>>
  ELSE IF ComparaPor(Head(ordenada), x, by) <= 0
       THEN <<Head(ordenada)>> \o Inserir(x, Tail(ordenada), by)
       ELSE <<x>> \o ordenada

\* DataFrame.sort_values(by=[...]) on several columns: a stable lexsort
RECURSIVE sort_values(_, _)
sort_values(d, by) ==
  IF d = <<>> THEN <<>>
  ELSE Inserir(d[Len(d)], sort_values(SubSeq(d, 1, Len(d) - 1), by), by)

\* the goal test written with > instead of >=
Batch_acima_da_meta(setup, peso) ==
  [setup |-> setup, peso |-> peso, atingiu_meta |-> peso > PESO_META_BATCH]

Batch(setup, peso) ==
  [setup |-> setup, peso |-> peso, atingiu_meta |-> peso >= PESO_META_BATCH]

\* lines 77-86: the loop over the sorted lots, from lot i on
RECURSIVE PercorrerLotes(_, _, _, _, _)
PercorrerLotes(s, i, batches_info, current_batch_setup, current_batch_weight) ==
  IF i > Len(s)
  THEN Append(batches_info, Batch(current_batch_setup, current_batch_weight))
  ELSE IF s[i].SETUP # current_batch_setup
       THEN PercorrerLotes(s, i + 1,
              Append(batches_info, Batch(current_batch_setup, current_batch_weight)),
              s[i].SETUP, s[i].PESO_TOTAL)
       ELSE PercorrerLotes(s, i + 1, batches_info, current_batch_setup,
              current_batch_weight + s[i].PESO_TOTAL)

\* pd.DataFrame(lotes) of an empty list has no columns at all
TemColunas(df_lotes) == df_lotes # <<>>

\* the sort without its last column, DATA_ENTREGA
otimizar_sequencia_sem_data(df_lotes, pr) ==
  IF ~TemColunas(df_lotes)
  THEN [erro |-> TRUE, sequencia |-> <<>>, batches |-> <<>>]
  ELSE LET sequencia_otimizada_lotes == sort_values(df_lotes, pr)
       IN  [erro |-> FALSE,
            sequencia |-> sequencia_otimizada_lotes,
            batches |-> PercorrerLotes(sequencia_otimizada_lotes, 1, <<>>,
                          sequencia_otimizada_lotes[1].SETUP, 0)]

\* [erro, sequencia, batches]: erro is the KeyError sort_values raises for
\* a column the frame does not have
otimizar_sequencia(df_lotes, pr) ==
  IF ~TemColunas(df_lotes)
  THEN [erro |-> TRUE, sequencia |-> <<>>, batches |-> <<>>]
  ELSE LET sequencia_otimizada_lotes ==
             sort_values(df_lotes, pr \o <<"DATA_ENTREGA">>)
       IN  IF sequencia_otimizada_lotes = <<>>
           THEN [erro |-> FALSE, sequencia |-> <<>>, batches |-> <<>>]
           ELSE [erro |-> FALSE,
                 sequencia |-> sequencia_otimizada_lotes,
                 batches |-> PercorrerLotes(sequencia_otimizada_lotes, 1, <<>>,
                               sequencia_otimizada_lotes[1].SETUP, 0)]

\* --------------------------------------------------------------- reporter
VAZIO == <<>>

\* Series.unique(): the values in the order they first occur
RECURSIVE Unicos(_, _)
Unicos(xs, vistos) ==
  IF xs = <<>> THEN <<>>
  ELSE IF Head(xs) \in vistos THEN Unicos(Tail(xs), vistos)
  ELSE <<Head(xs)>> \o Unicos(Tail(xs), vistos \cup {Head(xs)})

\* the position taken to be the 0-based index
mapa_posicao_base_zero(lotes_ordenados, lote_id) ==
  LET onde == {i \in 1..Len(lotes_ordenados) : lotes_ordenados[i] = lote_id}
  IN  IF onde = {} THEN NaN ELSE (CHOOSE i \in onde : TRUE) - 1

\* dict lookup: the 1-based index of lote_id in lotes_ordenados, NaN if absent
mapa_posicao(lotes_ordenados, lote_id) ==
  LET onde == {i \in 1..Len(lotes_ordenados) : lotes_ordenados[i] = lote_id}
  IN  IF onde = {} THEN NaN ELSE CHOOSE i \in onde : TRUE

\* drop_duplicates(subset=['LOTE']).set_index('LOTE'): the first record of a lot
mapa_info(sequencia_lotes, lote_id) ==
  LET onde == {i \in 1..Len(sequencia_lotes) : sequencia_lotes[i].LOTE = lote_id}
  IN  sequencia_lotes[CHOOSE i \in onde : \A k \in onde : i <= k]

\* strftime('%d/%m/%Y').fillna(''): the day of a timestamp, as text
FormatarData(t) == IF t = NaT THEN VAZIO ELSE Str(Dias(t))

\* lines 103-110: the rows of df_original that map to a position, with the
\* three attached columns, before the final sort
LinhasDoRelatorio(sequencia_lotes, df_original) ==
  LET lotes_ordenados == Unicos(Coluna(sequencia_lotes, "LOTE"), {})
      comPosicao == SelectSeq(df_original,
                      LAMBDA r : mapa_posicao(lotes_ordenados, r.LOTE) # NaN)
  IN  [i \in 1..Len(comPosicao) |->
         LET r == comPosicao[i]
             info == mapa_info(sequencia_lotes, r.LOTE)
         IN  [Posicao |-> mapa_posicao(lotes_ordenados, r.LOTE),
              LOTE |-> r.LOTE,
              PRODUTO |-> r.PRODUTO,
              QTDE |-> r.QTDE,
              DATA_DE_ENTREGA |-> FormatarData(r.DATA),
              SETUP |-> info.SETUP,
              URGENCIA |-> info.URGENCIA_NOME]]

\* sort_values(by='Posição na Sequência') on one column uses the default
\* quicksort, which is not stable: every arrangement of the rows in
\* non-decreasing position is a possible result
Ordenacoes(linhas) ==
  {[i \in 1..Len(linhas) |-> linhas[p[i]]] : p \in
     {q \in Permutations(1..Len(linhas)) :
        \A i \in 1..(Len(linhas) - 1) :
          linhas[q[i]].Posicao <= linhas[q[i + 1]].Posicao}}

gerar_relatorio_final(sequencia_lotes, df_original) ==
  IF sequencia_lotes = <<>> THEN {<<>>}
  ELSE Ordenacoes(LinhasDoRelatorio(sequencia_lotes, df_original))

\* f"{x:.2f}" of the quotient a / b: hundredths, rounded to nearest
DuasCasas(a, b) == (200 * a + b) \div (2 * b)

SemMetricas == [vazio |-> TRUE]

\* the count of setup changes taken to be the count of batches
calcular_metricas_sem_menos_um(sequencia_lotes, batches_info) ==
  IF batches_info = <<>> THEN SemMetricas
  ELSE [vazio |-> FALSE,
        num_batches |-> Len(batches_info),
        total_mudancas_setup |-> Len(batches_info)]

calcular_metricas(sequencia_lotes, batches_info) ==
  IF batches_info = <<>> THEN SemMetricas
  ELSE LET num_batches == Len(batches_info)
           batches_na_meta ==
             Cardinality({i \in 1..num_batches : batches_info[i].atingiu_meta})
           peso_total_processado == Soma(Coluna(batches_info, "peso"))
           lotes_unicos == Unicos(Coluna(sequencia_lotes, "LOTE"), {})
           nomes == {sequencia_lotes[i].URGENCIA_NOME : i \in 1..Len(sequencia_lotes)}
       IN  [vazio |-> FALSE,
            total_lotes |-> Len(lotes_unicos),
            peso_total |-> DuasCasas(peso_total_processado, 1),
            num_batches |-> num_batches,
            total_mudancas_setup |-> IF num_batches > 0 THEN num_batches - 1 ELSE 0,
            batches_na_meta |-> batches_na_meta,
            perc_batches_na_meta |-> DuasCasas(batches_na_meta * 100, num_batches),
            peso_medio_batch |-> DuasCasas(peso_total_processado, num_batches),
            dist_urgencia |->
              [n \in nomes |->
                 Cardinality({l \in 1..Len(lotes_unicos) :
                   mapa_info(sequencia_lotes, lotes_unicos[l]).URGENCIA_NOME = n})]]

\* ------------------------------------------------------------ run handler
\* lines 224-230: a cell of the 'DATA DE ENTREGA' column. A serial counts days
\* from 1899-12-30, the origin of the timestamps; day-first text names a day
robust_date_parser(val) ==
  CASE val.tipo = "vazio" -> NaT
    [] val.tipo = "serial" -> val.dias * PartesDoDia + val.partes
    [] val.tipo = "texto" -> val.dias * PartesDoDia
    [] OTHER -> NaT

\* lines 220-236 on a sheet that has the four columns
LimparPlanilha(p) ==
  LET completas == SelectSeq(p, LAMBDA r :
                     r.LOTE # NaoTexto /\ r.PRODUTO # NaoTexto /\ r.QTDE # NaN)
  IN  [i \in 1..Len(completas) |->
         [LOTE |-> completas[i].LOTE,
          PRODUTO |-> completas[i].PRODUTO,
          QTDE |-> fillna0(to_numeric(completas[i].QTDE)),
          DATA |-> robust_date_parser(completas[i].DATA)]]

\* ------------------------------------------------------------ input sets
\* the wall clock when the script starts: day 20, second part of the day
HoraInicial == 20 * PartesDoDia + 1

Prioridades ==
  {<<"URGENCIA_NIVEL", "SETUP", "ESPESSURA">>, <<"URGENCIA_NIVEL", "ESPESSURA", "SETUP">>,
   <<"SETUP", "URGENCIA_NIVEL", "ESPESSURA">>, <<"SETUP", "ESPESSURA", "URGENCIA_NIVEL">>,
   <<"ESPESSURA", "URGENCIA_NIVEL", "SETUP">>, <<"ESPESSURA", "SETUP", "URGENCIA_NIVEL">>}

\* "3,00X1200"
D_FINA_1200 == <<"3", ",", "0", "0", "X", "1", "2", "0", "0">>
\* "4.75 X 1000"
D_FINA_1000 == <<"4", ".", "7", "5", " ", "X", " ", "1", "0", "0", "0">>
\* "Rebaixado 6,30X1000"
D_Rebaixado == <<"R", "e", "b", "a", "i", "x", "a", "d", "o", " ",
                 "6", ",", "3", "0", "X", "1", "0", "0", "0">>
\* "5x1000": a lower-case x, which the pattern does not accept
D_x_minusculo == <<"5", "x", "1", "0", "0", "0">>

Serial(d, p) == [tipo |-> "serial", dias |-> d, partes |-> p]
Texto(d) == [tipo |-> "texto", dias |-> d, partes |-> 0]
CelulaVazia == [tipo |-> "vazio", dias |-> 0, partes |-> 0]
CelulaInvalida == [tipo |-> "invalido", dias |-> 0, partes |-> 0]

\* the line items a sheet is made of: PRODUTO, QTDE and DATA DE ENTREGA
Itens ==
  {[PRODUTO |-> D_FINA_1200, QTDE |-> 50, DATA |-> Serial(16, 0)],
   [PRODUTO |-> D_Rebaixado, QTDE |-> 80, DATA |-> Texto(16)],
   [PRODUTO |-> D_FINA_1000, QTDE |-> TEXTO_NAO_NUMERICO, DATA |-> CelulaVazia]}

LotesDaPlanilha == {<<"9">>, <<"1", "0">>}

\* a row with an empty QTDE cell, which line 220 drops
LinhaIncompleta ==
  [LOTE |-> <<"9">>, PRODUTO |-> D_x_minusculo, QTDE |-> NaN, DATA |-> CelulaInvalida]

LinhasPossiveis ==
  {[LOTE |-> l, PRODUTO |-> it.PRODUTO, QTDE |-> it.QTDE, DATA |-> it.DATA] :
     l \in LotesDaPlanilha, it \in Itens}
  \cup {LinhaIncompleta}

Planilhas == UNION {[1..n -> LinhasPossiveis] : n \in 0..MaxLinhas}

\* ----------------------------------------------------------------- actions
\* line 10: the module global is set when the script starts
CapturarDataAtual ==
  /\ pc = "inicio"
  /\ DATA_ATUAL' = clock
  /\ pc' = "script"
  /\ UNCHANGED <<clock, planilha, priorities, df, pendentes, lotes, sequencia,
                 batches, relatorio, metricas, data_entrega, urgencia, msg>>

\* the wall clock advances between two iterations of the loop that
\* classifies the lots
Tick ==
  /\ pc = "agregando"
  /\ clock < HoraInicial + MaxTicks
  /\ clock' = clock + 1
  /\ UNCHANGED <<DATA_ATUAL, planilha, priorities, df, pendentes, lotes, sequencia,
                 batches, relatorio, metricas, data_entrega, urgencia, msg, pc>>

\* lines 205-236: the button is pressed, the sheet is read and cleaned
LerPlanilha ==
  /\ pc = "script"
  /\ df' = LimparPlanilha(planilha)
  /\ pc' = "limpo"
  /\ UNCHANGED <<clock, DATA_ATUAL, planilha, priorities, pendentes, lotes,
                 sequencia, batches, relatorio, metricas, data_entrega, urgencia, msg>>

\* lines 239, 44-45: processar_dados_lote starts and groups the rows
IniciarProcessamento ==
  /\ pc = "limpo"
  /\ lotes' = <<>>
  /\ pendentes' = groupby_LOTE(df)
  /\ pc' = IF groupby_LOTE(df) = <<>> THEN "lotes_prontos" ELSE "agregando"
  /\ UNCHANGED <<clock, DATA_ATUAL, planilha, priorities, df, sequencia, batches,
                 relatorio, metricas, data_entrega, urgencia, msg>>

\* the loop reading the clock again for each lot
ProcessarGrupo_relendo_o_relogio ==
  /\ pc = "agregando"
  /\ pendentes # <<>>
  /\ lotes' = Append(lotes,
                LoteDoGrupo(Head(pendentes), SelectRows(df, Head(pendentes)), clock))
  /\ pendentes' = Tail(pendentes)
  /\ pc' = IF Tail(pendentes) = <<>> THEN "lotes_prontos" ELSE "agregando"
  /\ UNCHANGED <<clock, DATA_ATUAL, planilha, priorities, df, sequencia, batches,
                 relatorio, metricas, data_entrega, urgencia, msg>>

\* lines 45-62: one iteration of the loop over the groups
ProcessarGrupo ==
  /\ pc = "agregando"
  /\ pendentes # <<>>
  /\ lotes' = Append(lotes,
                LoteDoGrupo(Head(pendentes), SelectRows(df, Head(pendentes)), DATA_ATUAL))
  /\ pendentes' = Tail(pendentes)
  /\ pc' = IF Tail(pendentes) = <<>> THEN "lotes_prontos" ELSE "agregando"
  /\ UNCHANGED <<clock, DATA_ATUAL, planilha, priorities, df, sequencia, batches,
                 relatorio, metricas, data_entrega, urgencia, msg>>

\* lines 63, 240, 65-94, and 307-308 when the call raises
OtimizarSequencia ==
  /\ pc = "lotes_prontos"
  /\ LET r == otimizar_sequencia(lotes, priorities)
     IN  /\ sequencia' = r.sequencia
         /\ batches' = r.batches
         /\ msg' = IF r.erro THEN "erro" ELSE msg
         /\ pc' = IF r.erro THEN "fim" ELSE "sequenciado"
  /\ UNCHANGED <<clock, DATA_ATUAL, planilha, priorities, df, pendentes, lotes,
                 relatorio, metricas, data_entrega, urgencia>>

\* lines 242-245: nothing to process, or the detail report
GerarRelatorio ==
  /\ pc = "sequenciado"
  /\ IF sequencia = <<>>
     THEN /\ msg' = "nenhum_lote"
          /\ pc' = "fim"
          /\ UNCHANGED relatorio
     ELSE /\ relatorio' \in gerar_relatorio_final(sequencia, df)
          /\ pc' = "relatorio"
          /\ UNCHANGED msg
  /\ UNCHANGED <<clock, DATA_ATUAL, planilha, priorities, df, pendentes, lotes,
                 sequencia, batches, metricas, data_entrega, urgencia>>

\* lines 246-305: the metrics, the workbook and the success message
CalcularMetricas ==
  /\ pc = "relatorio"
  /\ metricas' = calcular_metricas(sequencia, batches)
  /\ msg' = "sucesso"
  /\ pc' = "fim"
  /\ UNCHANGED <<clock, DATA_ATUAL, planilha, priorities, df, pendentes, lotes,
                 sequencia, batches, relatorio, data_entrega, urgencia>>

Init ==
  /\ clock = HoraInicial
  /\ DATA_ATUAL = NaT
  /\ planilha \in Planilhas
  /\ priorities \in Prioridades
  /\ df = <<>>
  /\ pendentes = <<>>
  /\ lotes = <<>>
  /\ sequencia = <<>>
  /\ batches = <<>>
  /\ relatorio = <<>>
  /\ metricas = SemMetricas
  /\ data_entrega = NaT
  /\ urgencia = <<0, "">>
  /\ msg = ""
  /\ pc = "inicio"

Next ==
  \/ CapturarDataAtual
  \/ Tick
  \/ LerPlanilha
  \/ IniciarProcessamento
  \/ ProcessarGrupo
  \/ OtimizarSequencia
  \/ GerarRelatorio
  \/ CalcularMetricas

Spec == Init /\ [][Next]_vars

\* ------------------------------------- otimizar_sequencia on any lot list
\* the lot at position i of a list given to otimizar_sequencia directly
IdDaPosicao(i) == Str(9 - i)

\* no date, three days late, one day late, fifteen days ahead
DatasDosLotes == {NaT, HoraInicial - 6, HoraInicial - 2, HoraInicial + 30}

DimensoesDosLotes == {<<3000, 1200>>, <<4000, 1000>>}

\* the dimensions and the due date of a lot: one of two setups with any of
\* the dates, or no dimensions and no date
LotesPossiveis == (DimensoesDosLotes \X DatasDosLotes) \cup {<<<<None, None>>, NaT>>}

Lote(id, dim, data, peso, data_atual) ==
  [LOTE |-> id,
   PESO_TOTAL |-> peso,
   DATA_ENTREGA |-> data,
   SETUP |-> determinar_setup(dim[1], dim[2]),
   URGENCIA_NIVEL |-> calcular_urgencia(data, data_atual)[1],
   URGENCIA_NOME |-> calcular_urgencia(data, data_atual)[2],
   ESPESSURA |-> IF dim[1] # None THEN dim[1] ELSE ESPESSURA_AUSENTE]

PesoDoLote(data) == IF data = HoraInicial - 6 THEN 70 ELSE 50

ListasDeLotes ==
  UNION {{[i \in 1..n |-> Lote(IdDaPosicao(i), c[i][1], c[i][2],
                                PesoDoLote(c[i][2]), HoraInicial)] :
            c \in [1..n -> LotesPossiveis]} :
         n \in 0..MaxLotes}

\* setups A,A,B,B,B,A with weights 40,40,30,30,70,10, in urgency tiers 1,1,2,2,2,3
ExemploDeBatches ==
  LET A == <<3000, 1200>>
      B == <<4000, 1000>>
      t1 == HoraInicial - 12 * PartesDoDia
      t2 == HoraInicial - 6 * PartesDoDia
      t3 == HoraInicial - PartesDoDia
  IN  <<Lote(IdDaPosicao(1), A, t1, 40, HoraInicial),
        Lote(IdDaPosicao(2), A, t1, 40, HoraInicial),
        Lote(IdDaPosicao(3), B, t2, 30, HoraInicial),
        Lote(IdDaPosicao(4), B, t2, 30, HoraInicial),
        Lote(IdDaPosicao(5), B, t2, 70, HoraInicial),
        Lote(IdDaPosicao(6), A, t3, 10, HoraInicial)>>

\* lines 132-156 called on the two results of otimizar_sequencia
MetricasDiretas ==
  /\ pc = "sequenciado"
  /\ metricas' = calcular_metricas(sequencia, batches)
  /\ pc' = "fim"
  /\ UNCHANGED <<clock, DATA_ATUAL, planilha, priorities, df, pendentes, lotes,
                 sequencia, batches, relatorio, data_entrega, urgencia, msg>>

InitSeq ==
  /\ clock = HoraInicial
  /\ DATA_ATUAL = HoraInicial
  /\ planilha = <<>>
  /\ \/ lotes \in ListasDeLotes /\ priorities \in Prioridades
     \/ lotes = ExemploDeBatches
        /\ priorities = <<"URGENCIA_NIVEL", "SETUP", "ESPESSURA">>
  /\ df = <<>>
  /\ pendentes = <<>>
  /\ sequencia = <<>>
  /\ batches = <<>>
  /\ relatorio = <<>>
  /\ metricas = SemMetricas
  /\ data_entrega = NaT
  /\ urgencia = <<0, "">>
  /\ msg = ""
  /\ pc = "lotes_prontos"

NextSeq == OtimizarSequencia \/ MetricasDiretas

SpecSeq == InitSeq /\ [][NextSeq]_vars

\* ------------------------------------------ calcular_urgencia on any date
DatasDeEntrega == {NaT} \cup (0..(2 * HoraInicial))

ChamarCalcularUrgencia ==
  /\ pc = "urgencia"
  /\ urgencia' = calcular_urgencia(data_entrega, DATA_ATUAL)
  /\ pc' = "fim"
  /\ UNCHANGED <<clock, DATA_ATUAL, planilha, priorities, df, pendentes, lotes,
                 sequencia, batches, relatorio, metricas, data_entrega, msg>>

InitUrg ==
  /\ clock = HoraInicial
  /\ DATA_ATUAL \in {HoraInicial - 1, HoraInicial}
  /\ planilha = <<>>
  /\ priorities = <<"URGENCIA_NIVEL", "SETUP", "ESPESSURA">>
  /\ df = <<>>
  /\ pendentes = <<>>
  /\ lotes = <<>>
  /\ sequencia = <<>>
  /\ batches = <<>>
  /\ relatorio = <<>>
  /\ metricas = SemMetricas
  /\ data_entrega \in DatasDeEntrega
  /\ urgencia = <<0, "">>
  /\ msg = ""
  /\ pc = "urgencia"

NextUrg == ChamarCalcularUrgencia

SpecUrg == InitUrg /\ [][NextUrg]_vars

\* ------------------------------------------------------------------ claims
\* otimizar_sequencia has just returned its two results
Sequenciado == pc = "sequenciado"

\* the indices where a run of equal SETUP starts
Inicios(s) == {i \in 1..Len(s) : i = 1 \/ s[i].SETUP # s[i - 1].SETUP}

\* the k-th smallest element of a set of naturals
Enesimo(S, k) == CHOOSE x \in S : Cardinality({y \in S : y < x}) = k - 1

\* the last index of the run that starts at i
FimDaCorrida(s, i) ==
  CHOOSE j \in i..Len(s) :
    /\ \A k \in i..j : s[k].SETUP = s[i].SETUP
    /\ j = Len(s) \/ s[j + 1].SETUP # s[i].SETUP

GrupoPorCorridas(s, bs) ==
  /\ Len(bs) = Cardinality(Inicios(s))
  /\ \A k \in 1..Len(bs) :
       LET i == Enesimo(Inicios(s), k)
           j == FimDaCorrida(s, i)
           soma == Soma(Coluna(SubSeq(s, i, j), "PESO_TOTAL"))
       IN  /\ bs[k].setup = s[i].SETUP
           /\ bs[k].peso = soma
           /\ bs[k].atingiu_meta = (soma >= 120)
  /\ \A k \in 1..(Len(bs) - 1) : bs[k].setup # bs[k + 1].setup

\* C1: the batch list otimizar_sequencia returns is the run-length grouping
\* of the sorted sequence by SETUP: one batch per maximal run of equal SETUP,
\* in order, with the run's summed weight and atingiu_meta iff the sum is at
\* least 120, the last run closed too; setups A,A,B,B,B,A with weights
\* 40,40,30,30,70,10 give (A,80,false), (B,130,true), (A,10,false).
C1_BatchesSaoCorridas ==
  Sequenciado =>
    /\ GrupoPorCorridas(sequencia, batches)
    /\ lotes = ExemploDeBatches =>
         batches = <<[setup |-> determinar_setup(3000, 1200), peso |-> 80,
                      atingiu_meta |-> FALSE],
                     [setup |-> determinar_setup(4000, 1000), peso |-> 130,
                      atingiu_meta |-> TRUE],
                     [setup |-> determinar_setup(3000, 1200), peso |-> 10,
                      atingiu_meta |-> FALSE]>>

\* the example of C1 has been sequenced into its three batches
C1_Witness ==
  /\ Sequenciado
  /\ lotes = ExemploDeBatches
  /\ Len(batches) = 3
  /\ batches[1].setup = batches[3].setup

\* a sorts before b, or with it, on one column; a null date is the greatest
ChaveMenor(a, b, col) ==
  CASE col = "SETUP" -> SetupMenor(a.SETUP, b.SETUP)
    [] col = "DATA_ENTREGA" ->
         /\ a.DATA_ENTREGA # NaT
         /\ b.DATA_ENTREGA = NaT \/ a.DATA_ENTREGA < b.DATA_ENTREGA
    [] OTHER -> a[col] < b[col]

\* a <= b in the lexicographic order of the columns cols
RECURSIVE LexMenorOuIgual(_, _, _)
LexMenorOuIgual(a, b, cols) ==
  IF cols = <<>> THEN TRUE
  ELSE \/ ChaveMenor(a, b, Head(cols))
       \/ /\ a[Head(cols)] = b[Head(cols)]
          /\ LexMenorOuIgual(a, b, Tail(cols))

QuatroChaves == priorities \o <<"DATA_ENTREGA">>

IguaisNasChaves(a, b) == \A k \in 1..4 : a[QuatroChaves[k]] = b[QuatroChaves[k]]

PosicaoEm(s, lote_id) == CHOOSE i \in 1..Len(s) : s[i].LOTE = lote_id

\* C2: the sequence otimizar_sequencia returns is a permutation of the input
\* lots, every adjacent pair in non-decreasing lexicographic order of
\* (p1, p2, p3, DATA_ENTREGA) with a null date greater than every date, and
\* lots equal on the four keys keep their input order, for each of the six
\* priority orders.
C2_OrdenacaoEstavel ==
  Sequenciado =>
    /\ Len(sequencia) = Len(lotes)
    /\ \A i \in 1..Len(lotes) :
         Cardinality({j \in 1..Len(sequencia) : sequencia[j] = lotes[i]})
           = Cardinality({j \in 1..Len(lotes) : lotes[j] = lotes[i]})
    /\ \A i \in 1..(Len(sequencia) - 1) :
         LexMenorOuIgual(sequencia[i], sequencia[i + 1], QuatroChaves)
    /\ \A i, j \in 1..Len(sequencia) :
         (i < j /\ IguaisNasChaves(sequencia[i], sequencia[j])) =>
           PosicaoEm(lotes, sequencia[i].LOTE) < PosicaoEm(lotes, sequencia[j].LOTE)

\* a sort that moved lots, with two lots tied on the four keys and a lot
\* without a date placed after a dated lot it preceded in the input
C2_Witness ==
  /\ Sequenciado
  /\ sequencia # lotes
  /\ \E i, j \in 1..Len(sequencia) :
       i < j /\ IguaisNasChaves(sequencia[i], sequencia[j])
  /\ \E i, j \in 1..Len(sequencia) :
       /\ i < j
       /\ sequencia[i].DATA_ENTREGA # NaT
       /\ sequencia[j].DATA_ENTREGA = NaT
       /\ \A k \in 1..3 : sequencia[i][priorities[k]] = sequencia[j][priorities[k]]
       /\ PosicaoEm(lotes, sequencia[j].LOTE) < PosicaoEm(lotes, sequencia[i].LOTE)

SetupsDe(s) == {s[i].SETUP : i \in 1..Len(s)}

\* C10: with SETUP the first priority no two batches share a setup key, so
\* there are as many batches as distinct setup keys; and whatever the order,
\* the reported count of setup changes is the count of adjacent positions of
\* the sorted sequence where SETUP differs.
C10_SetupPrimeiro ==
  (pc = "fim" /\ ~metricas.vazio) =>
    /\ priorities[1] = "SETUP" =>
         /\ \A i, j \in 1..Len(batches) : i # j => batches[i].setup # batches[j].setup
         /\ Len(batches) = Cardinality(SetupsDe(lotes))
    /\ metricas.total_mudancas_setup =
         Cardinality({i \in 1..(Len(sequencia) - 1) :
                        sequencia[i].SETUP # sequencia[i + 1].SETUP})

\* SETUP first, on an input that alternates two setups
C10_Witness ==
  /\ pc = "fim"
  /\ ~metricas.vazio
  /\ priorities[1] = "SETUP"
  /\ Len(lotes) = 3
  /\ lotes[1].SETUP = lotes[3].SETUP
  /\ lotes[1].SETUP # lotes[2].SETUP
  /\ Len(batches) = 2
  /\ metricas.total_mudancas_setup = 1

\* with another key first, one setup key in two batches (the second half of
\* C10, a statement of reachability)
C10_OutraChavePrimeiro ==
  /\ pc = "fim"
  /\ ~metricas.vazio
  /\ priorities[1] # "SETUP"
  /\ \E i, j \in 1..Len(batches) : i # j /\ batches[i].setup = batches[j].setup

\* gerar_relatorio_final has just returned the report
RelatorioPronto == pc = "relatorio"

\* processar_dados_lote has just returned its lots
Agregado == pc = "lotes_prontos"

\* C3: every lot id of the output of processar_dados_lote is in the detail
\* report at exactly one sequence position, which is its 1-based rank in the
\* sorted lot list of otimizar_sequencia; no lot id is missing and the rows
\* are in non-decreasing position order.
C3_PosicaoEhORank ==
  RelatorioPronto =>
    /\ \A i \in 1..Len(lotes) :
         {relatorio[k].Posicao : k \in {n \in 1..Len(relatorio) :
                                          relatorio[n].LOTE = lotes[i].LOTE}}
           = {PosicaoEm(sequencia, lotes[i].LOTE)}
    /\ Cardinality({<<relatorio[k].LOTE, relatorio[k].Posicao>> :
                      k \in 1..Len(relatorio)}) = Len(lotes)
    /\ \A k \in 1..(Len(relatorio) - 1) :
         relatorio[k].Posicao <= relatorio[k + 1].Posicao

\* a report of two lots, one of them on two rows, where the lot the
\* aggregator emitted first is second in the sequence
C3_Witness ==
  /\ RelatorioPronto
  /\ Len(lotes) = 2
  /\ Len(relatorio) = 3
  /\ sequencia[1].LOTE = lotes[2].LOTE
  /\ relatorio[1].LOTE = lotes[2].LOTE
  /\ relatorio[1].Posicao = 1
  /\ relatorio[3].Posicao = 2

\* C4 as stated: when no row reaches the aggregator the run ends in the
\* 'nothing to process' message, never in the caught-exception message.
C4_EntradaVaziaNaoEhErro ==
  (pc = "fim" /\ df = <<>>) => (msg = "nenhum_lote" /\ msg # "erro")

\* C5 as stated: the lots are emitted in the order the rows first show
\* their lot ids.
C5_OrdemDeChegada ==
  Agregado => Coluna(lotes, "LOTE") = ChavesPorChegada(df)

\* C5 amended: the lots are emitted in ascending order of lot id (as text),
\* whatever the order of the rows, so lots tied on the four sort keys reach
\* the sequence in ascending order of lot id.
C5_OrdemDasChaves ==
  /\ Agregado =>
       /\ \A i, j \in 1..Len(lotes) :
            i < j => TextoMenor(lotes[i].LOTE, lotes[j].LOTE)
       /\ {lotes[i].LOTE : i \in 1..Len(lotes)} = {df[i].LOTE : i \in 1..Len(df)}
  /\ Sequenciado =>
       \A i, j \in 1..Len(sequencia) :
         (i < j /\ IguaisNasChaves(sequencia[i], sequencia[j])) =>
           TextoMenor(sequencia[i].LOTE, sequencia[j].LOTE)

\* lot "9" is on the first row and lot "10" on the second, they tie on the
\* four keys, and "10" is first in the output and in the sequence
C5_Witness ==
  /\ Sequenciado
  /\ Len(df) = 2
  /\ df[1].LOTE = <<"9">>
  /\ df[2].LOTE = <<"1", "0">>
  /\ Coluna(lotes, "LOTE") = <<<<"1", "0">>, <<"9">>>>
  /\ IguaisNasChaves(sequencia[1], sequencia[2])
  /\ Coluna(sequencia, "LOTE") = <<<<"1", "0">>, <<"9">>>>

\* the rows of the sheet that have a lot id, a product and a quantity
LinhasCompletas ==
  SelectSeq(planilha, LAMBDA r :
    r.LOTE # NaoTexto /\ r.PRODUTO # NaoTexto /\ r.QTDE # NaN)

\* a quantity that is not a number counts as 0
ValorDaQtde(q) == IF q >= 0 THEN q ELSE 0

\* C7: processar_dados_lote emits one record per distinct lot id of the rows,
\* none twice, none omitted, none invented, and PESO_TOTAL is the sum of QTDE
\* over the rows of the lot, a non-numeric QTDE counting as 0; two rows of one
\* lot with 50 and 80 give one lot of weight 130.
C7_UmLotePorId ==
  Agregado =>
    /\ {lotes[i].LOTE : i \in 1..Len(lotes)}
         = {LinhasCompletas[i].LOTE : i \in 1..Len(LinhasCompletas)}
    /\ \A i, j \in 1..Len(lotes) : lotes[i].LOTE = lotes[j].LOTE => i = j
    /\ \A i \in 1..Len(lotes) :
         lotes[i].PESO_TOTAL =
           Soma([k \in 1..Len(LinhasCompletas) |->
                   IF LinhasCompletas[k].LOTE = lotes[i].LOTE
                   THEN ValorDaQtde(LinhasCompletas[k].QTDE) ELSE 0])

\* one lot on three rows, 50, 80 and a quantity that is not a number: 130
C7_Witness ==
  /\ Agregado
  /\ Len(lotes) = 1
  /\ Len(df) = 3
  /\ {planilha[i].QTDE : i \in 1..Len(planilha)} = {50, 80, TEXTO_NAO_NUMERICO}
  /\ lotes[1].PESO_TOTAL = 130

Rebaixado(produto) == Contem(upper(produto), MARCA_REBAIXADO)

\* C8 as stated: a line item whose descriptor holds REBAIXAD is reported with
\* SETUP_INDEFINIDO, also when other line items of its lot parse.
C8_RebaixadoSempreIndefinido ==
  RelatorioPronto =>
    \A k \in 1..Len(relatorio) :
      Rebaixado(relatorio[k].PRODUTO) => relatorio[k].SETUP = SETUP_INDEFINIDO

\* the rows of a lot that can give it dimensions: no marker, and the pattern
FontesDeDimensao(lote_id) ==
  SelectSeq(df, LAMBDA r :
    /\ r.LOTE = lote_id
    /\ ~Rebaixado(r.PRODUTO)
    /\ re_search(r.PRODUTO) # SemCasamento)

\* C8 amended: parse_dimensoes returns (None, None) for every descriptor that
\* holds REBAIXAD in any letter case, whatever its digits, and a line item
\* with such a descriptor is reported with SETUP_INDEFINIDO unless another
\* line item of its lot has a descriptor that parses: then it is reported
\* with the setup key of the first such line item of the lot.
C8_RebaixadoNaoDaDimensoes ==
  /\ pc = "limpo" =>
       \A i \in 1..Len(df) :
         Rebaixado(df[i].PRODUTO) => parse_dimensoes(df[i].PRODUTO) = <<None, None>>
  /\ RelatorioPronto =>
       \A k \in 1..Len(relatorio) :
         Rebaixado(relatorio[k].PRODUTO) =>
           LET fontes == FontesDeDimensao(relatorio[k].LOTE)
           IN  IF fontes = <<>>
               THEN relatorio[k].SETUP = SETUP_INDEFINIDO
               ELSE /\ relatorio[k].SETUP # SETUP_INDEFINIDO
                    /\ relatorio[k].SETUP.balancim =
                         IntDe(re_search(fontes[1].PRODUTO)[2])

\* a report with a REBAIXAD row of a lot that has a row that parses, and a
\* REBAIXAD row of a lot that has none
C8_Witness ==
  /\ RelatorioPronto
  /\ \E k \in 1..Len(relatorio) :
       /\ Rebaixado(relatorio[k].PRODUTO)
       /\ relatorio[k].SETUP = [plaina |-> "PLAINA_FINA", balancim |-> 1200]
  /\ \E k \in 1..Len(relatorio) :
       /\ Rebaixado(relatorio[k].PRODUTO)
       /\ relatorio[k].PRODUTO # upper(relatorio[k].PRODUTO)
       /\ relatorio[k].SETUP = SETUP_INDEFINIDO

\* C9: the reference instant is captured once, before any lot is classified,
\* and every lot of the run is classified against it however far the clock
\* has advanced, so two lots with equal earliest due dates have the same
\* urgency tier and label.
C9_UmaReferenciaPorExecucao ==
  /\ pc # "inicio" => DATA_ATUAL = HoraInicial
  /\ pc \in {"agregando", "lotes_prontos"} => \A i \in 1..Len(lotes) :
       /\ lotes[i].URGENCIA_NIVEL = calcular_urgencia(lotes[i].DATA_ENTREGA, HoraInicial)[1]
       /\ \A j \in 1..Len(lotes) :
            lotes[i].DATA_ENTREGA = lotes[j].DATA_ENTREGA =>
              /\ lotes[i].URGENCIA_NIVEL = lotes[j].URGENCIA_NIVEL
              /\ lotes[i].URGENCIA_NOME = lotes[j].URGENCIA_NOME

\* two lots with the same due date, classified alike although the clock has
\* since reached an instant at which that date falls in another tier
C9_Witness ==
  /\ Len(lotes) = 2
  /\ lotes[1].DATA_ENTREGA # NaT
  /\ lotes[1].DATA_ENTREGA = lotes[2].DATA_ENTREGA
  /\ lotes[1].URGENCIA_NIVEL = lotes[2].URGENCIA_NIVEL
  /\ clock > DATA_ATUAL
  /\ calcular_urgencia(lotes[2].DATA_ENTREGA, clock)[1] # lotes[2].URGENCIA_NIVEL

\* the whole days d with d days <= DATA_ATUAL - data_entrega < d + 1 days
DiasDeAtraso ==
  CHOOSE d \in -100..100 :
    /\ d * PartesDoDia <= DATA_ATUAL - data_entrega
    /\ DATA_ATUAL - data_entrega < (d + 1) * PartesDoDia

\* the tiers whose range of the table holds d
FaixasDaTabela(d) ==
  {t \in 1..5 :
     CASE t = 1 -> d > 10
       [] t = 2 -> 5 <= d /\ d <= 10
       [] t = 3 -> 0 <= d /\ d <= 4
       [] t = 4 -> -10 <= d /\ d <= -1
       [] t = 5 -> d < -10}

RotuloDaFaixa(t) ==
  CASE t = 1 -> "1 - URGENTISSIMO" [] t = 2 -> "2 - URGENTE"
    [] t = 3 -> "3 - ATRASADO" [] t = 4 -> "4 - NO TEMPO"
    [] t = 5 -> "5 - COM FOLGA"

PontosDaTabela ==
  {<<11, 1>>, <<10, 2>>, <<5, 2>>, <<4, 3>>, <<0, 3>>, <<-1, 4>>, <<-10, 4>>,
   <<-11, 5>>}

\* C6: calcular_urgencia gives tier 5 with the no-date label for a null date;
\* otherwise exactly one range of the table holds days_late and its tier and
\* label are the result (>10: 1, 5..10: 2, 0..4: 3, -10..-1: 4, < -10: 5
\* with the plain label, which is not the no-date label), with 11->1, 10->2,
\* 5->2, 4->3, 0->3, -1->4, -10->4, -11->5.
C6_TabelaDeUrgencia ==
  pc = "fim" =>
    IF data_entrega = NaT
    THEN urgencia = <<5, "5 - COM FOLGA (SEM DATA)">>
    ELSE /\ FaixasDaTabela(DiasDeAtraso) = {urgencia[1]}
         /\ urgencia[2] = RotuloDaFaixa(urgencia[1])
         /\ urgencia[2] # "5 - COM FOLGA (SEM DATA)"
         /\ \A p \in PontosDaTabela : DiasDeAtraso = p[1] => urgencia[1] = p[2]

\* a date ten days late, a boundary of the table, has been classified
C6_Witness ==
  /\ pc = "fim"
  /\ data_entrega # NaT
  /\ DiasDeAtraso = 10
  /\ urgencia[1] = 2

====
